---- MODULE Spec2Model ----
(***************************************************************************)
(* Model of compdb-rs (src/src/main.rs): the header discovery pass         *)
(* find_header_files with its rayon workers, the include resolver with its *)
(* caches, the directory interner and the aggregation in list_command.     *)
(***************************************************************************)
EXTENDS Integers, Sequences, FiniteSets, Bags, TLC

\* ------------------------------------------------------------------ bounds
\* Largest thread pool tried: rayon::current_num_threads() is 1..MaxWorkers.
MaxWorkers == 2

\* ------------------------------------------------------------ Option, maps
\* Option<T>: None is the empty sequence, Some(v) the one-element sequence.
None == <<>>
Some(v) == <<v>>
IsSome(o) == o # <<>>
Unwrap(o) == o[1]

\* DashMap<K, V> as the set of its entries [k, v].
MapGet(m, key) ==
  IF key \in {e.k : e \in m} THEN Some((CHOOSE e \in m : e.k = key).v) ELSE None

\* DashMap::insert: replaces the value of an existing key.
MapInsertKeepsOld(m, key, val) == m \cup {[k |-> key, v |-> val]}
MapInsert(m, key, val) == {e \in m : e.k # key} \cup {[k |-> key, v |-> val]}

MapKeys(m) == {e.k : e \in m}

\* ------------------------------------------------------------------- paths
\* A path is [dir, stem, ext]: the directory components, the file stem and
\* the extension ("" when the file name has none).  A directory is the
\* sequence of its components.  An include token is a relative path.
MkPath(d, s, e) == [dir |-> d, stem |-> s, ext |-> e]
Tok(s, e) == MkPath(<<>>, s, e)

\* Path::join for a relative right-hand side.
Join(d, token) == MkPath(d \o token.dir, token.stem, token.ext)
\* Path::parent
Parent(path) == path.dir
\* Path::extension
Extension(path) == IF path.ext = "" THEN None ELSE Some(path.ext)
\* Path::starts_with: component-wise prefix.
StartsWith(path, d) ==
  /\ Len(d) <= Len(path.dir)
  /\ SubSeq(path.dir, 1, Len(d)) = d

\* Directories of the modelled machine.
DirP == <<"p">>
DirQ == <<"q">>
DirA == <<"a">>
DirB == <<"b">>
DirS == <<"usr", "inc">>

\* Symbolic links among directories: q is a link to p.
SymLinks == {[from |-> DirQ, to |-> DirP]}

\* fs::canonicalize on the directory part: a leading link is followed.
RECURSIVE CanonDir(_)
CanonDir(d) ==
  IF \E l \in SymLinks : Len(l.from) <= Len(d) /\ SubSeq(d, 1, Len(l.from)) = l.from
  THEN LET l == CHOOSE l \in SymLinks :
                  Len(l.from) <= Len(d) /\ SubSeq(d, 1, Len(l.from)) = l.from
       IN CanonDir(l.to \o SubSeq(d, Len(l.from) + 1, Len(d)))
  ELSE d

CanonPath(path) == MkPath(CanonDir(path.dir), path.stem, path.ext)

\* ------------------------------------------------------- compile commands
\* One word of an invocation: "-I", "-I<dir>", "-isystem", or any other word
\* (val is then the path the word spells).
ArgI == [flag |-> "-I", val |-> <<>>]
ArgIDir(d) == [flag |-> "-I", val |-> d]
ArgISystem == [flag |-> "-isystem", val |-> <<>>]
ArgWord(d) == [flag |-> "", val |-> d]
\* PathBuf::from(&args[i + 1]): whatever the next word is, read as a path.
ArgAsPath(a) == IF a.flag = "" THEN a.val ELSE <<a.flag>> \o a.val

\* A command string is a sequence of words and blanks.
Blank == [flag |-> " ", val |-> <<>>]
\* str::split_whitespace
SplitWhitespace(command) == SelectSeq(command, LAMBDA c : c # Blank)

CompileCommand(d, f, c, a, o) ==
  [directory |-> d, file |-> f, command |-> c, arguments |-> a, output |-> o]

\* Words of a path that the classifier looks for.
SystemWords == {"toolchain", "sysroot", "gcc", "clang"}

is_system_path(path) ==
  \/ Len(path) >= 2 /\ path[1] \in {"usr", "opt"}
  \/ \E i \in 1..Len(path) : path[i] \in SystemWords

\* The loop of extract_include_directories_for_command over args (i is
\* 1-based here); yields the two sets <<project_dirs, system_dirs>>.
RECURSIVE ScanArgs(_, _, _, _)
ScanArgs(args, i, project_dirs, system_dirs) ==
  IF i > Len(args) THEN <<project_dirs, system_dirs>>
  ELSE IF args[i] = ArgI /\ i + 1 <= Len(args) THEN
    LET path == ArgAsPath(args[i + 1]) IN
      IF is_system_path(path)
      THEN ScanArgs(args, i + 2, project_dirs, system_dirs \cup {path})
      ELSE ScanArgs(args, i + 2, project_dirs \cup {path}, system_dirs)
  ELSE IF args[i].flag = "-I" THEN
    LET path == args[i].val IN
      IF path = <<>> THEN ScanArgs(args, i + 1, project_dirs, system_dirs)
      ELSE IF is_system_path(path)
      THEN ScanArgs(args, i + 1, project_dirs, system_dirs \cup {path})
      ELSE ScanArgs(args, i + 1, project_dirs \cup {path}, system_dirs)
  ELSE IF args[i] = ArgISystem /\ i + 1 <= Len(args) THEN
    ScanArgs(args, i + 2, project_dirs, system_dirs \cup {ArgAsPath(args[i + 1])})
  ELSE ScanArgs(args, i + 1, project_dirs, system_dirs)

CommandArgs(cmd) ==
  IF IsSome(cmd.arguments) THEN Some(Unwrap(cmd.arguments))
  ELSE IF IsSome(cmd.command) THEN Some(SplitWhitespace(Unwrap(cmd.command)))
  ELSE None

\* The two FxHashSets built for one command.
IncludeDirSets(cmd) ==
  IF IsSome(CommandArgs(cmd)) THEN ScanArgs(Unwrap(CommandArgs(cmd)), 1, {}, {})
  ELSE <<{}, {}>>

\* ------------------------------------------------------------- the machine
TokX == Tok("x", "h")
TokY == Tok("y", "h")
TokH == Tok("h", "h")
TokS == Tok("s", "h")
TokZ == Tok("z", "h")
TokU == Tok("u", "h")
TokV == Tok("v", "h")
TokW == Tok("w", "h")
TokR == Tok("r", "h")
TokT == Tok("t", "inl")
TokL == Tok("LICENSE", "")
TokNope == Tok("nope", "h")

FileM == MkPath(DirP, "m", "cpp")
FileN == MkPath(DirQ, "n", "c")
FileK == MkPath(DirP, "k", "cc")
FileG == MkPath(DirP, "gone", "c")
FileH == MkPath(DirP, "h", "h")

FsFile(path, includes, readable) ==
  [path |-> path, includes |-> includes, readable |-> readable]

\* Snapshot 1: the translation units share h.h (which includes itself) and
\* find x.h and y.h through different search directories.
FsShared == {
  FsFile(FileM, <<TokH, TokX>>, TRUE),
  FsFile(MkPath(DirP, "n", "c"), <<TokX, TokH>>, TRUE),
  FsFile(FileK, <<TokX>>, TRUE),
  FsFile(FileH, <<TokH, TokY>>, TRUE),
  FsFile(MkPath(DirB, "h", "h"), <<TokZ>>, TRUE),
  FsFile(MkPath(DirA, "x", "h"), <<>>, TRUE),
  FsFile(MkPath(DirS, "x", "h"), <<TokZ>>, TRUE),
  FsFile(MkPath(DirS, "z", "h"), <<>>, TRUE),
  FsFile(MkPath(DirA, "y", "h"), <<>>, TRUE),
  FsFile(MkPath(DirB, "y", "h"), <<>>, TRUE),
  FsFile(MkPath(DirS, "y", "h"), <<>>, TRUE) }

\* Snapshot 2: an include cycle u.h <-> v.h, a system header, a header with
\* a foreign extension, a file without extension, an unreadable header, a
\* name that is nowhere.
FsPrune == {
  FsFile(FileM, <<TokS, TokU>>, TRUE),
  FsFile(MkPath(DirP, "n", "c"), <<TokT, TokU>>, TRUE),
  FsFile(FileK, <<TokL, TokNope, TokR>>, TRUE),
  FsFile(MkPath(DirP, "u", "h"), <<TokV>>, TRUE),
  FsFile(MkPath(DirP, "v", "h"), <<TokU>>, TRUE),
  FsFile(MkPath(DirP, "t", "inl"), <<TokW>>, TRUE),
  FsFile(MkPath(DirP, "LICENSE", ""), <<TokW>>, TRUE),
  FsFile(MkPath(DirP, "r", "h"), <<TokY>>, FALSE),
  FsFile(MkPath(DirP, "w", "h"), <<>>, TRUE),
  FsFile(MkPath(DirP, "y", "h"), <<>>, TRUE),
  FsFile(MkPath(DirS, "s", "h"), <<TokZ>>, TRUE),
  FsFile(MkPath(DirS, "z", "h"), <<>>, TRUE) }

FileSystems == {FsShared, FsPrune}

\* "-Ia -Ib -I /usr/inc"
CmdM == CompileCommand(DirP, FileM, None,
          Some(<<ArgIDir(DirA), ArgIDir(DirB), ArgI, ArgWord(DirS)>>), Some("m.o"))
\* "-isystem /usr/inc -I b -I", the file named through the link q
CmdN == CompileCommand(DirP, FileN, None,
          Some(<<ArgISystem, ArgWord(DirS), ArgI, ArgWord(DirB), ArgI>>), None)
\* command string "cc  -c", no search directory
CmdK == CompileCommand(DirP, FileK,
          Some(<<ArgWord(<<"cc">>), Blank, Blank, ArgWord(<<"-c">>)>>), None, None)
\* a header listed in the manifest, with neither command nor arguments
CmdH == CompileCommand(DirP, FileH, None, None, None)
\* a translation unit that is not on disk
CmdG == CompileCommand(DirP, FileG, None, Some(<<ArgIDir(DirA)>>), None)

\* The manifests tried: one entry, or two entries whose files share a
\* directory, share headers, or are not seeded.
Manifests == {
  <<CmdM>>, <<CmdN>>, <<CmdK>>, <<CmdH>>,
  <<CmdM, CmdN>>, <<CmdK, CmdM>>, <<CmdN, CmdG>>, <<CmdH, CmdK>> }

\* All enumeration orders of a finite set.
Orders(S) == {f \in [1..Cardinality(S) -> S] : \A x \in S : \E i \in DOMAIN f : f[i] = x}

\* ------------------------------------------------------------------- state
VARIABLES
  build_paths,       \* cli.build_paths: per directory, what its manifest file is
  bp,                \* list_command: index of the next build path
  all_commands,      \* list_command: the entries loaded so far
  load,              \* list_command: "loading", "loaded" or "failed"
  manifest,          \* compile_commands: the merged input entries
  fs,                \* the filesystem snapshot
  nworkers,          \* rayon::current_num_threads()
  file_to_includes,  \* file -> project dirs chained with system dirs
  file_to_command,   \* file -> its command
  all_system_dirs,   \* the system directories of every command
  work_queue,        \* the Injector, seeded before the workers start
  local_work,        \* per worker: its Vec of work items
  pc,                \* per worker: position in the worker closure
  cur,               \* per worker: the work item and include being handled
  processed_headers, \* header -> source that found it
  resolve_cache,     \* (include, dir_id) -> Option<String>
  exists_cache,      \* path -> bool
  DIR_TO_ID,         \* directory -> id
  NEXT_DIR_ID,       \* the AtomicU32
  output,            \* what list_command prints, None until then
  claimed,           \* history: bag of the inserts that found the header absent
  pushed,            \* history: bag of headers pushed onto a local queue
  read_files,        \* history: the files whose content was read
  popped,            \* history: the work items taken by local_work.pop()
  resolve_log        \* history: the calls of resolve_header_path that returned

vars == <<build_paths, bp, all_commands, load, manifest, fs, nworkers, file_to_includes, file_to_command,
          all_system_dirs, work_queue, local_work, pc, cur,
          processed_headers, resolve_cache, exists_cache, DIR_TO_ID,
          NEXT_DIR_ID, output, claimed, pushed, read_files, popped,
          resolve_log>>

Workers == 1..nworkers

\* ------------------------------------------------------------- filesystem
\* Path::exists (follows links).
PathExists(path) == CanonPath(path) \in {f.path : f \in fs}
FileAt(path) == CHOOSE f \in fs : f.path = CanonPath(path)
\* fs::read_to_string(..).ok(), then extract_includes: the include tokens of
\* the file in source order, None when the file cannot be read.
ReadIncludes(path) ==
  IF PathExists(path) /\ FileAt(path).readable THEN Some(FileAt(path).includes)
  ELSE None
\* fs::canonicalize(..).ok().and_then(to_str)
Canonicalize(path) == IF PathExists(path) THEN Some(CanonPath(path)) ELSE None

\* ------------------------------------------------- search directory lists
\* into_iter() of an FxHashSet: the order is fixed by the hashes of the
\* elements, not by the order of insertion; order lists every directory
\* that can be in the set.
HashIter(S, order) == SelectSeq(order, LAMBDA d : d \in S)

\* order is the pair of iteration orders of the two sets.
extract_include_directories_for_command(cmd, order) ==
  <<HashIter(IncludeDirSets(cmd)[1], order[1]),
    HashIter(IncludeDirSets(cmd)[2], order[2])>>

ProjectDirs(cmds) == UNION {IncludeDirSets(cmds[i])[1] : i \in DOMAIN cmds}
SystemDirs(cmds) == UNION {IncludeDirSets(cmds[i])[2] : i \in DOMAIN cmds}
HashOrders(cmds) == Orders(ProjectDirs(cmds)) \X Orders(SystemDirs(cmds))

\* project_dirs chained with system_dirs (line 102).
AllDirs(cmd, order) ==
  extract_include_directories_for_command(cmd, order)[1]
    \o extract_include_directories_for_command(cmd, order)[2]

\* The first loop of find_header_files: a later entry of the same file
\* replaces the earlier one.
RECURSIVE BuildFileToIncludes(_, _, _)
BuildFileToIncludes(cmds, n, order) ==
  IF n = 0 THEN {}
  ELSE MapInsert(BuildFileToIncludes(cmds, n - 1, order),
                 cmds[n].file, AllDirs(cmds[n], order))

RECURSIVE BuildFileToCommand(_, _)
BuildFileToCommand(cmds, n) ==
  IF n = 0 THEN {}
  ELSE MapInsert(BuildFileToCommand(cmds, n - 1), cmds[n].file, cmds[n])

SourceExts == {"c", "cpp", "cc", "cxx"}
HeaderExts == {"h", "hpp", "hh", "hxx"}

\* The seeding loop: valid C/C++ sources that exist, each its own context.
IsSeedAlways(cmd) == TRUE
IsSeed(cmd) ==
  /\ IsSome(Extension(cmd.file))
  /\ Unwrap(Extension(cmd.file)) \in SourceExts
  /\ PathExists(cmd.file)

WorkItem(file, ctx) == [file |-> file, ctx |-> ctx]

RECURSIVE SeedQueue(_, _)
SeedQueue(cmds, n) ==
  IF n = 0 THEN <<>>
  ELSE IF IsSeed(cmds[n])
       THEN Append(SeedQueue(cmds, n - 1), WorkItem(cmds[n].file, cmds[n].file))
       ELSE SeedQueue(cmds, n - 1)

\* is_source of the worker loop (lines 141-144).
IsSourceNoFilter(file_path) == TRUE
IsSource(file_path) ==
  IF IsSome(Extension(file_path))
  THEN Unwrap(Extension(file_path)) \in SourceExts \cup HeaderExts
  ELSE TRUE

is_system_header_never(header_path, system_dirs) == FALSE
is_system_header(header_path, system_dirs) ==
  \E sys_dir \in system_dirs : StartsWith(header_path, sys_dir)

\* ----------------------------------------------------------------- resolver
\* candidate_paths of resolve_header_path.
CandidatePaths(include, include_dirs, source_file) ==
  <<Join(Parent(source_file), include)>>
    \o [i \in 1..Len(include_dirs) |-> Join(include_dirs[i], include)]

\* batch_check_exists: the answers, and the cache afterwards.
ExistsResults(paths, cache) ==
  [i \in 1..Len(paths) |->
     IF IsSome(MapGet(cache, paths[i])) THEN Unwrap(MapGet(cache, paths[i]))
     ELSE PathExists(paths[i])]
ExistsCacheAfter(paths, cache) ==
  cache \cup {[k |-> paths[i], v |-> PathExists(paths[i])] :
                i \in {j \in 1..Len(paths) : ~IsSome(MapGet(cache, paths[j]))}}

\* Index of the first search-directory candidate that exists.
FirstExisting(exists_results) ==
  CHOOSE i \in 2..Len(exists_results) :
    /\ exists_results[i]
    /\ \A j \in 2..(i - 1) : ~exists_results[j]

ResolveOutcomeSearchFirst(candidate_paths, exists_results) ==
  IF \E i \in 2..Len(exists_results) : exists_results[i]
  THEN [result |-> Canonicalize(candidate_paths[FirstExisting(exists_results)]),
        stored |-> FALSE]
  ELSE IF exists_results[1]
  THEN [result |-> Canonicalize(candidate_paths[1]), stored |-> TRUE]
  ELSE [result |-> None, stored |-> TRUE]

\* Lines 280-289: the result, and whether control reaches cache.insert
\* (a hit in a search directory returns from inside the loop).
ResolveOutcome(candidate_paths, exists_results) ==
  IF exists_results[1]
  THEN [result |-> Canonicalize(candidate_paths[1]), stored |-> TRUE]
  ELSE IF \E i \in 2..Len(exists_results) : exists_results[i]
  THEN [result |-> Canonicalize(candidate_paths[FirstExisting(exists_results)]),
        stored |-> FALSE]
  ELSE [result |-> None, stored |-> TRUE]

\* ------------------------------------------------------------------ workers
NoPath == MkPath(<<>>, "", "")
Idle == [file |-> NoPath, ctx |-> NoPath, include_dirs |-> <<>>,
         includes |-> <<>>, i |-> 0, dir_id |-> 0, result |-> None]

\* A build directory: its compile_commands.json is absent, cannot be read,
\* is not a JSON list of entries, or holds the entries commands.
BuildDir(kind, commands) == [kind |-> kind, commands |-> commands]
AbsentDir == BuildDir("absent", <<>>)
UnreadableDir == BuildDir("unreadable", <<>>)
UnparsableDir == BuildDir("unparsable", <<>>)
OkDir(commands) == BuildDir("ok", commands)

\* The state when list_command has loaded the one build directory that
\* holds manifest and find_header_files has built its maps and seeded the
\* injector.
Init ==
  /\ manifest \in Manifests
  /\ build_paths = <<OkDir(manifest)>>
  /\ bp = 2
  /\ all_commands = manifest
  /\ load = "loaded"
  /\ fs \in FileSystems
  /\ nworkers \in 1..MaxWorkers
  /\ \E order \in HashOrders(manifest) :
       file_to_includes = BuildFileToIncludes(manifest, Len(manifest), order)
  /\ file_to_command = BuildFileToCommand(manifest, Len(manifest))
  /\ all_system_dirs = SystemDirs(manifest)
  /\ work_queue = SeedQueue(manifest, Len(manifest))
  /\ local_work = [w \in Workers |-> <<>>]
  /\ pc = [w \in Workers |-> "loop"]
  /\ cur = [w \in Workers |-> Idle]
  /\ processed_headers = {}
  /\ resolve_cache = {}
  /\ exists_cache = {}
  /\ DIR_TO_ID = {}
  /\ NEXT_DIR_ID = 0
  /\ output = None
  /\ claimed = EmptyBag
  /\ pushed = EmptyBag
  /\ read_files = {}
  /\ popped = EmptyBag
  /\ resolve_log = {}

Inputs == <<build_paths, bp, all_commands, load, manifest, fs, nworkers,
           file_to_includes, file_to_command, all_system_dirs>>
Caches == <<resolve_cache, exists_cache, DIR_TO_ID, NEXT_DIR_ID>>
History == <<claimed, pushed, read_files, popped, resolve_log>>

\* The include being resolved and the directory of the file that names it.
Include(w) == cur[w].includes[cur[w].i]
SourceDir(w) == Parent(cur[w].file)

\* Where the worker goes once it is between two includes: on with the
\* file, else to the while-let pop, else back to the top of the loop.
BetweenSkipsDrain(c, local) ==
  IF c.i >= 1 /\ c.i <= Len(c.includes) THEN "scan" ELSE "loop"
Between(c, local) ==
  IF c.i >= 1 /\ c.i <= Len(c.includes) THEN "scan"
  ELSE IF local # <<>> THEN "drain"
  ELSE "loop"

\* Line 136: Steal::Empty => break.
OnStealEmptyContinue == "loop"
OnStealEmpty == "done"

\* Lines 132-138: with an empty local queue, steal from the injector or
\* leave the loop.  (Steal::Retry repeats the same step.)
Steal(w) ==
  /\ pc[w] = "loop"
  /\ IF work_queue # <<>>
     THEN /\ local_work' = [local_work EXCEPT ![w] = Append(@, Head(work_queue))]
          /\ work_queue' = Tail(work_queue)
          /\ pc' = [pc EXCEPT ![w] = "drain"]
     ELSE /\ pc' = [pc EXCEPT ![w] = OnStealEmpty]
          /\ UNCHANGED <<work_queue, local_work>>
  /\ UNCHANGED <<Inputs, Caches, History, cur, processed_headers, output>>

\* Lines 140-150: pop the newest local item; filter by extension, look up
\* the context's directories, read the file and extract its includes.
Pop(w) ==
  /\ pc[w] = "drain"
  /\ LET item == local_work[w][Len(local_work[w])]
         rest == SubSeq(local_work[w], 1, Len(local_work[w]) - 1)
         dirs == MapGet(file_to_includes, item.ctx)
         content == ReadIncludes(item.file)
         taken == IsSource(item.file) /\ IsSome(dirs) /\ IsSome(content)
         next == IF taken
                 THEN [Idle EXCEPT !.file = item.file, !.ctx = item.ctx,
                                   !.include_dirs = Unwrap(dirs),
                                   !.includes = Unwrap(content), !.i = 1]
                 ELSE Idle
     IN /\ local_work' = [local_work EXCEPT ![w] = rest]
        /\ read_files' = IF taken THEN read_files \cup {item.file} ELSE read_files
        /\ popped' = popped (+) SetToBag({item})
        /\ cur' = [cur EXCEPT ![w] = IF Between(next, rest) = "scan" THEN next ELSE Idle]
        /\ pc' = [pc EXCEPT ![w] = Between(next, rest)]
  /\ UNCHANGED <<Inputs, Caches, work_queue, processed_headers, output,
                 claimed, pushed, resolve_log>>

\* get_dir_id line 25, called from line 265 for the next include:
\* DIR_TO_ID.get of the including file's directory.
Scan(w) ==
  /\ pc[w] = "scan"
  /\ IF IsSome(MapGet(DIR_TO_ID, SourceDir(w)))
     THEN /\ cur' = [cur EXCEPT ![w].dir_id = Unwrap(MapGet(DIR_TO_ID, SourceDir(w)))]
          /\ pc' = [pc EXCEPT ![w] = "cache_get"]
     ELSE /\ pc' = [pc EXCEPT ![w] = "dir_alloc"]
          /\ UNCHANGED cur
  /\ UNCHANGED <<Inputs, Caches, History, work_queue, local_work,
                 processed_headers, output>>

\* get_dir_id line 28: NEXT_DIR_ID.fetch_add(1).  The counter wraps at 2^32;
\* a pass allocates at most one id per resolved include, far below that.
FetchAddStuck(n) == n
FetchAdd(n) == n + 1

DirAlloc(w) ==
  /\ pc[w] = "dir_alloc"
  /\ cur' = [cur EXCEPT ![w].dir_id = NEXT_DIR_ID]
  /\ NEXT_DIR_ID' = FetchAdd(NEXT_DIR_ID)
  /\ pc' = [pc EXCEPT ![w] = "dir_insert"]
  /\ UNCHANGED <<Inputs, History, work_queue, local_work, processed_headers,
                 resolve_cache, exists_cache, DIR_TO_ID, output>>

\* get_dir_id line 29: DIR_TO_ID.insert(path_buf, id).
DirInsert(w) ==
  /\ pc[w] = "dir_insert"
  /\ DIR_TO_ID' = MapInsert(DIR_TO_ID, SourceDir(w), cur[w].dir_id)
  /\ pc' = [pc EXCEPT ![w] = "cache_get"]
  /\ UNCHANGED <<Inputs, History, work_queue, local_work, cur, processed_headers,
                 resolve_cache, exists_cache, NEXT_DIR_ID, output>>

ResolveKey(w) == <<Include(w), cur[w].dir_id>>
LogEntry(w, result, cached) ==
  [include |-> Include(w), file |-> cur[w].file, ctx |-> cur[w].ctx,
   result |-> result, cached |-> cached]

\* Lines 268-270: a cached answer is returned as it is.
CacheGet(w) ==
  /\ pc[w] = "cache_get"
  /\ IF IsSome(MapGet(resolve_cache, ResolveKey(w)))
     THEN /\ cur' = [cur EXCEPT ![w].result = Unwrap(MapGet(resolve_cache, ResolveKey(w)))]
          /\ resolve_log' = resolve_log \cup
               {LogEntry(w, Unwrap(MapGet(resolve_cache, ResolveKey(w))), TRUE)}
          /\ pc' = [pc EXCEPT ![w] = "claim"]
     ELSE /\ pc' = [pc EXCEPT ![w] = "probe"]
          /\ UNCHANGED <<cur, resolve_log>>
  /\ UNCHANGED <<Inputs, Caches, work_queue, local_work, processed_headers,
                 output, claimed, pushed, read_files, popped>>

\* Lines 272-292: probe the candidates through the existence cache, take
\* the first that exists, store the answer unless the loop returned.
Probe(w) ==
  /\ pc[w] = "probe"
  /\ LET candidate_paths == CandidatePaths(Include(w), cur[w].include_dirs, cur[w].file)
         exists_results == ExistsResults(candidate_paths, exists_cache)
         outcome == ResolveOutcome(candidate_paths, exists_results)
     IN /\ exists_cache' = ExistsCacheAfter(candidate_paths, exists_cache)
        /\ resolve_cache' = IF outcome.stored
                            THEN MapInsert(resolve_cache, ResolveKey(w), outcome.result)
                            ELSE resolve_cache
        /\ cur' = [cur EXCEPT ![w].result = outcome.result]
        /\ resolve_log' = resolve_log \cup {LogEntry(w, outcome.result, FALSE)}
  /\ pc' = [pc EXCEPT ![w] = "claim"]
  /\ UNCHANGED <<Inputs, work_queue, local_work, processed_headers, DIR_TO_ID,
                 NEXT_DIR_ID, output, claimed, pushed, read_files, popped>>

\* processed_headers.insert(..).is_none(): was the key absent before?
InsertIsNoneAlways(m, key) == TRUE
InsertIsNone(m, key) == ~IsSome(MapGet(m, key))

\* Lines 152-159: an unresolved include is skipped; a resolved one is
\* inserted into processed_headers, and pushed when the key was new and the
\* header is not under a system directory.
Claim(w) ==
  /\ pc[w] = "claim"
  /\ LET header == cur[w].result
         first == IsSome(header) /\ InsertIsNone(processed_headers, Unwrap(header))
         push == first /\ ~is_system_header(Unwrap(header), all_system_dirs)
         local == IF push
                  THEN Append(local_work[w], WorkItem(Unwrap(header), cur[w].ctx))
                  ELSE local_work[w]
         next == [cur[w] EXCEPT !.i = @ + 1, !.result = None]
     IN /\ processed_headers' =
             IF IsSome(header)
             THEN MapInsert(processed_headers, Unwrap(header), cur[w].ctx)
             ELSE processed_headers
        /\ claimed' = IF first
                      THEN claimed (+) SetToBag({[header |-> Unwrap(header),
                                                  ctx |-> cur[w].ctx]})
                      ELSE claimed
        /\ pushed' = IF push THEN pushed (+) SetToBag({Unwrap(header)}) ELSE pushed
        /\ local_work' = [local_work EXCEPT ![w] = local]
        /\ cur' = [cur EXCEPT ![w] = IF Between(next, local) = "scan" THEN next ELSE Idle]
        /\ pc' = [pc EXCEPT ![w] = Between(next, local)]
  /\ UNCHANGED <<Inputs, Caches, work_queue, output, read_files, popped,
                 resolve_log>>

\* ---------------------------------------------------------------- aggregate
\* Lines 169-184: one entry per processed header whose source is a known
\* command, in the map's iteration order.
HeaderCommandKeepsOutput(e) == [Unwrap(MapGet(file_to_command, e.v)) EXCEPT !.file = e.k]
HeaderCommand(e) ==
  LET source_cmd == Unwrap(MapGet(file_to_command, e.v))
  IN CompileCommand(source_cmd.directory, e.k, source_cmd.command,
                    source_cmd.arguments, None)

HeaderCommands(entries) ==
  LET known == SelectSeq(entries, LAMBDA e : IsSome(MapGet(file_to_command, e.v)))
  IN [i \in 1..Len(known) |-> HeaderCommand(known[i])]

AllDone == \A w \in Workers : pc[w] = "done"

\* The scope has joined; list_command lines 336-339 append the header
\* commands to the input commands.
Aggregate ==
  /\ AllDone
  /\ output = None
  /\ \E entries \in Orders(processed_headers) :
       output' = Some(manifest \o HeaderCommands(entries))
  /\ UNCHANGED <<Inputs, Caches, History, work_queue, local_work, pc, cur,
                 processed_headers>>

Next ==
  \/ \E w \in Workers : Steal(w)
  \/ \E w \in Workers : Pop(w)
  \/ \E w \in Workers : Scan(w)
  \/ \E w \in Workers : DirAlloc(w)
  \/ \E w \in Workers : DirInsert(w)
  \/ \E w \in Workers : CacheGet(w)
  \/ \E w \in Workers : Probe(w)
  \/ \E w \in Workers : Claim(w)
  \/ Aggregate

Spec == Init /\ [][Next]_vars

\* ------------------------------------------------------------ list_command
\* The build path lists tried: directories without a manifest file among
\* directories with one, and a manifest that cannot be read or parsed,
\* first or after a directory that loaded.
BuildPathSets == {
  <<AbsentDir>>,
  <<OkDir(<<CmdM>>), AbsentDir, OkDir(<<CmdN>>)>>,
  <<AbsentDir, OkDir(<<CmdK>>)>>,
  <<OkDir(<<CmdK>>), UnparsableDir, OkDir(<<CmdM>>)>>,
  <<UnreadableDir, OkDir(<<CmdN>>)>>,
  <<OkDir(<<CmdH>>), AbsentDir, UnreadableDir>> }

\* list_command has parsed the command line; nothing is loaded and
\* find_header_files has not been called.
ListInit ==
  /\ build_paths \in BuildPathSets
  /\ bp = 1
  /\ all_commands = <<>>
  /\ load = "loading"
  /\ manifest = <<>>
  /\ fs \in FileSystems
  /\ nworkers \in 1..MaxWorkers
  /\ file_to_includes = {}
  /\ file_to_command = {}
  /\ all_system_dirs = {}
  /\ work_queue = <<>>
  /\ local_work = [w \in Workers |-> <<>>]
  /\ pc = [w \in Workers |-> "idle"]
  /\ cur = [w \in Workers |-> Idle]
  /\ processed_headers = {}
  /\ resolve_cache = {}
  /\ exists_cache = {}
  /\ DIR_TO_ID = {}
  /\ NEXT_DIR_ID = 0
  /\ output = None
  /\ claimed = EmptyBag
  /\ pushed = EmptyBag
  /\ read_files = {}
  /\ popped = EmptyBag
  /\ resolve_log = {}

\* Lines 326-327 and 329-330: the ? operator returns the error.
OnReadErrorSkip == "loading"
OnReadError == "failed"
OnParseErrorSkip == "loading"
OnParseError == "failed"

\* Lines 319-333, one iteration: a directory without a manifest file is
\* passed over, a manifest that cannot be read or parsed ends the run, the
\* entries of any other are appended.
LoadManifest ==
  /\ load = "loading"
  /\ bp <= Len(build_paths)
  /\ LET d == build_paths[bp]
         after == IF d.kind = "unreadable" THEN OnReadError
                  ELSE IF d.kind = "unparsable" THEN OnParseError
                  ELSE "loading"
     IN /\ load' = after
        /\ bp' = IF after = "failed" THEN bp ELSE bp + 1
        /\ all_commands' = IF d.kind = "ok" THEN all_commands \o d.commands
                           ELSE all_commands
  /\ UNCHANGED <<build_paths, manifest, fs, nworkers, file_to_includes,
                 file_to_command, all_system_dirs, Caches, History, work_queue,
                 local_work, pc, cur, processed_headers, output>>

\* Line 336 and lines 94-129: after the last directory find_header_files is
\* called with all_commands, builds its maps, seeds the injector and spawns
\* the workers.
StartPass ==
  /\ load = "loading"
  /\ bp > Len(build_paths)
  /\ load' = "loaded"
  /\ manifest' = all_commands
  /\ \E order \in HashOrders(all_commands) :
       file_to_includes' = BuildFileToIncludes(all_commands, Len(all_commands), order)
  /\ file_to_command' = BuildFileToCommand(all_commands, Len(all_commands))
  /\ all_system_dirs' = SystemDirs(all_commands)
  /\ work_queue' = SeedQueue(all_commands, Len(all_commands))
  /\ pc' = [w \in Workers |-> "loop"]
  /\ UNCHANGED <<build_paths, bp, all_commands, fs, nworkers, Caches, History,
                 local_work, cur, processed_headers, output>>

ListNext ==
  \/ LoadManifest
  \/ StartPass
  \/ Next

ListSpec == ListInit /\ [][ListNext]_vars

\* ------------------------------------------------------ derived quantities
HeaderSet == MapKeys(processed_headers)
Returned == IsSome(output)
\* The synthetic entries of the printed list.
Synthetic == SubSeq(Unwrap(output), Len(manifest) + 1, Len(Unwrap(output)))

\* The pass with a single worker, as one computation: the injector is
\* taken front to back, the local Vec newest first, and no step of another
\* worker falls between a lookup and the insert that follows it (so every
\* directory has one id and a cache key is its (include, directory)).
SeqResolve(include, include_dirs, source_file, rc) ==
  LET key == <<include, Parent(source_file)>>
      candidate_paths == CandidatePaths(include, include_dirs, source_file)
      outcome == ResolveOutcome(candidate_paths, ExistsResults(candidate_paths, {}))
  IN IF IsSome(MapGet(rc, key))
     THEN [result |-> Unwrap(MapGet(rc, key)), rc |-> rc]
     ELSE [result |-> outcome.result,
           rc |-> IF outcome.stored THEN MapInsert(rc, key, outcome.result) ELSE rc]

\* No candidate of the token exists for this work item: not beside the
\* file, not under a search directory of its context.
NoCandidate(include, item) ==
  \A p \in {CandidatePaths(include, Unwrap(MapGet(file_to_includes, item.ctx)),
                           item.file)[j] :
              j \in 1..(1 + Len(Unwrap(MapGet(file_to_includes, item.ctx))))} :
    ~PathExists(p)

RECURSIVE SeqIncludes(_, _, _, _)
SeqIncludes(includes, i, item, st) ==
  IF i > Len(includes) THEN st
  ELSE IF st.drop /\ NoCandidate(includes[i], item)
  THEN SeqIncludes(includes, i + 1, item, st)
  ELSE LET r == SeqResolve(includes[i], Unwrap(MapGet(file_to_includes, item.ctx)),
                           item.file, st.rc)
           first == IsSome(r.result) /\ Unwrap(r.result) \notin st.headers
           push == first /\ ~is_system_header(Unwrap(r.result), all_system_dirs)
       IN SeqIncludes(includes, i + 1, item,
            [local |-> IF push
                       THEN Append(st.local, WorkItem(Unwrap(r.result), item.ctx))
                       ELSE st.local,
             headers |-> IF IsSome(r.result)
                         THEN st.headers \cup {Unwrap(r.result)}
                         ELSE st.headers,
             rc |-> r.rc, drop |-> st.drop])

RECURSIVE SeqLoop(_, _)
SeqLoop(queue, st) ==
  IF st.local = <<>>
  THEN IF queue = <<>> THEN st.headers
       ELSE SeqLoop(Tail(queue), [st EXCEPT !.local = <<Head(queue)>>])
  ELSE LET item == st.local[Len(st.local)]
           rest == [st EXCEPT !.local = SubSeq(st.local, 1, Len(st.local) - 1)]
       IN IF /\ IsSource(item.file)
             /\ IsSome(MapGet(file_to_includes, item.ctx))
             /\ IsSome(ReadIncludes(item.file))
          THEN SeqLoop(queue, SeqIncludes(Unwrap(ReadIncludes(item.file)), 1, item, rest))
          ELSE SeqLoop(queue, rest)

SequentialHeaders ==
  SeqLoop(SeedQueue(manifest, Len(manifest)),
          [local |-> <<>>, headers |-> {}, rc |-> {}, drop |-> FALSE])

\* The same pass over the files with every include directive removed that
\* has no candidate for the work item that scans it.
SequentialHeadersWithoutUnresolved ==
  SeqLoop(SeedQueue(manifest, Len(manifest)),
          [local |-> <<>>, headers |-> {}, rc |-> {}, drop |-> TRUE])

\* A single worker computes SequentialHeaders.
SingleWorkerIsSequential == (nworkers = 1 /\ AllDone) => HeaderSet = SequentialHeaders

\* ------------------------------------------------------------------ claims

\* C1: for a fixed manifest and filesystem snapshot the set of header paths
\* recorded when the pass ends is the same in every execution, whatever the
\* number of workers and the interleaving of their steps: it is the set the
\* single-worker pass records.
C1_SameHeaderSetInEveryExecution == AllDone => HeaderSet = SequentialHeaders

\* C2: the context recorded for a header is the context of the work unit
\* that claimed it first, in every state.
C2_RecordedContextIsFirstClaim ==
  \A e \in processed_headers :
    [header |-> e.k, ctx |-> e.v] \in BagToSet(claimed)

\* The search directories of an invocation in the order its words declare
\* them (-I<dir>, -I <dir>, -isystem <dir>).
RECURSIVE DeclaredOrder(_, _)
DeclaredOrder(args, i) ==
  IF i > Len(args) THEN <<>>
  ELSE IF (args[i] = ArgI \/ args[i] = ArgISystem) /\ i + 1 <= Len(args)
  THEN <<ArgAsPath(args[i + 1])>> \o DeclaredOrder(args, i + 2)
  ELSE IF args[i].flag = "-I" /\ args[i].val # <<>>
  THEN <<args[i].val>> \o DeclaredOrder(args, i + 1)
  ELSE DeclaredOrder(args, i + 1)

DeclaredDirsOf(ctx) ==
  LET cmd == Unwrap(MapGet(file_to_command, ctx))
  IN IF IsSome(CommandArgs(cmd)) THEN DeclaredOrder(Unwrap(CommandArgs(cmd)), 1) ELSE <<>>

\* The candidate of a call beside the including file.
Relative(e) == Join(Parent(e.file), e.include)
\* The declared directories of the call's context that hold the include.
Holding(e) ==
  {i \in DOMAIN DeclaredDirsOf(e.ctx) : PathExists(Join(DeclaredDirsOf(e.ctx)[i], e.include))}
EarliestHolding(e) ==
  DeclaredDirsOf(e.ctx)[CHOOSE i \in Holding(e) : \A j \in Holding(e) : i <= j]

\* C3: a call that probes the candidates, finds none beside the including
\* file and at least one under a declared directory, returns the candidate
\* under the directory declared earliest on the command line.
C3_EarliestDeclaredDirectoryWins ==
  \A e \in resolve_log :
    (~e.cached /\ ~PathExists(Relative(e)) /\ Holding(e) # {})
      => e.result = Canonicalize(Join(EarliestHolding(e), e.include))

\* C4: every call of resolve_header_path for a token that exists beside the
\* including file returns that file, whatever the context and the caches.
C4_RelativeCandidateWins ==
  \A e \in resolve_log :
    PathExists(Relative(e)) => e.result = Canonicalize(Relative(e))

\* C4 witness: a call answered from the resolve cache took the file beside
\* the including file although a search directory of its context holds a
\* file of the same name.
C4_Witness ==
  \E e \in resolve_log :
    /\ e.cached
    /\ PathExists(Relative(e))
    /\ e.result = Canonicalize(Relative(e))
    /\ \E i \in DOMAIN Unwrap(MapGet(file_to_includes, e.ctx)) :
         /\ PathExists(Join(Unwrap(MapGet(file_to_includes, e.ctx))[i], e.include))
         /\ Canonicalize(Join(Unwrap(MapGet(file_to_includes, e.ctx))[i], e.include))
              # e.result

\* C5: every header path is claimed at most once and pushed onto a work
\* queue at most once.
C5_AtMostOneClaimAndPush ==
  /\ \A h \in HeaderSet : CopiesIn(h, pushed) <= 1
  /\ \A c \in BagToSet(claimed) :
       /\ CopiesIn(c, claimed) = 1
       /\ \A d \in BagToSet(claimed) : d.header = c.header => d = c
  /\ \A h \in BagToSet(pushed) : \E c \in BagToSet(claimed) : c.header = h

\* C5 witness: two workers hold the same resolved header at the same time,
\* one has inserted it and pushed it, the other is about to insert it.
C5_Witness ==
  \E w1, w2 \in Workers :
    /\ w1 # w2
    /\ pc[w1] = "claim"
    /\ IsSome(cur[w1].result)
    /\ [header |-> Unwrap(cur[w1].result), ctx |-> cur[w2].ctx] \in BagToSet(claimed)
    /\ cur[w2].ctx # cur[w1].ctx
    /\ \E j \in DOMAIN local_work[w2] : local_work[w2][j].file = Unwrap(cur[w1].result)

\* C6: no two synthetic entries of the returned list have the same file.
C6_NoDuplicateSyntheticEntry ==
  Returned =>
    \A i, j \in DOMAIN Synthetic :
      Synthetic[i].file = Synthetic[j].file => i = j

\* C6 witness: the list is returned with two or more synthetic entries, one
\* of them for a header that calls of two different contexts resolved.
C6_Witness ==
  /\ Returned
  /\ Len(Synthetic) >= 2
  /\ \E e1, e2 \in resolve_log :
       /\ e1.ctx # e2.ctx
       /\ IsSome(e1.result)
       /\ e1.result = e2.result
       /\ \E i \in DOMAIN Synthetic : Synthetic[i].file = Unwrap(e1.result)

\* The work items waiting in the injector or in a local queue.
Queued ==
  {work_queue[i] : i \in DOMAIN work_queue}
    \cup UNION {{local_work[w][i] : i \in DOMAIN local_work[w]} : w \in Workers}

\* The canonical path lies under a system directory that some command of
\* the manifest declares.
UnderSystemDir(h) == \E d \in all_system_dirs : StartsWith(h, d)

\* C7: a recorded header under a declared system directory has one entry in
\* processed_headers, is never pushed, queued or read, no include is ever
\* resolved from it, and it has exactly one synthetic entry.
C7_SystemHeaderRecordedNotExpanded ==
  /\ \A h \in {x \in HeaderSet : UnderSystemDir(x)} :
       /\ Cardinality({e \in processed_headers : e.k = h}) = 1
       /\ CopiesIn(h, pushed) = 0
       /\ \A item \in Queued : item.file # h
       /\ h \notin read_files
       /\ \A w \in Workers : cur[w].file # h
       /\ Returned => Cardinality({i \in DOMAIN Synthetic : Synthetic[i].file = h}) = 1
  /\ \A e \in resolve_log : ~UnderSystemDir(e.file)
  /\ \A h \in HeaderSet : \E e \in resolve_log :
       e.result = Some(h) /\ ~UnderSystemDir(e.file)

\* C7 witness: the list is returned, a system header that includes an
\* existing header was recorded, and that included header is absent.
C7_Witness ==
  /\ Returned
  /\ \E h \in HeaderSet :
       /\ UnderSystemDir(h)
       /\ IsSome(ReadIncludes(h))
       /\ \E t \in {Unwrap(ReadIncludes(h))[i] : i \in DOMAIN Unwrap(ReadIncludes(h))} :
            /\ PathExists(Join(Parent(h), t))
            /\ CanonPath(Join(Parent(h), t)) \notin HeaderSet

\* How far a worker is from the end of its loop: the includes of the
\* current file still to come, six steps each (scan, dir_alloc, dir_insert,
\* cache_get, probe, claim), and its place in the present one.
PcRank(p) ==
  CASE p = "done" -> 0
    [] p = "loop" -> 1
    [] p = "drain" -> 2
    [] p = "claim" -> 3
    [] p = "probe" -> 4
    [] p = "cache_get" -> 5
    [] p = "dir_insert" -> 6
    [] p = "dir_alloc" -> 7
    [] p = "scan" -> 8

\* The longest include list of a file of the snapshot.
LongestFile ==
  CHOOSE n \in {Len(f.includes) : f \in fs} :
    \A f \in fs : Len(f.includes) <= n

\* What a queued work item can still cost: one pop and a full scan.
ItemCost == 6 * LongestFile + 1

RECURSIVE WorkersMeasure(_)
WorkersMeasure(n) ==
  IF n = 0 THEN 0
  ELSE WorkersMeasure(n - 1)
         + PcRank(pc[n])
         + (IF cur[n].i >= 1 THEN 6 * (Len(cur[n].includes) - cur[n].i) ELSE 0)
         + ItemCost * Len(local_work[n])

\* The work that remains: files not yet recorded (each can become one work
\* item), items in the injector and in the local queues, the position of
\* every worker, and the aggregation.
Measure ==
  ItemCost * Cardinality({f.path : f \in fs} \ HeaderSet)
    + (ItemCost + 2) * Len(work_queue)
    + WorkersMeasure(nworkers)
    + (IF Returned THEN 0 ELSE 1)

\* C8: the traversal terminates: as long as the list is not returned some
\* step can be taken, and every step makes the natural number Measure
\* smaller, so no execution takes steps forever and one that takes every
\* step it can ends with every worker out of its loop and the list returned.
C8_TraversalTerminates ==
  /\ [](Measure \in Nat)
  /\ [](~Returned => ENABLED <<Next>>_vars)
  /\ [](Returned => AllDone)
  /\ [][Measure' < Measure]_vars

\* C8 witness: the list is returned after the cycle u.h -> v.h -> u.h was
\* followed all the way round, or after h.h was found to include itself.
C8_Witness ==
  /\ Returned
  /\ \E e1, e2 \in resolve_log :
       /\ IsSome(e1.result) /\ IsSome(e2.result)
       /\ e1.file = Unwrap(e2.result)
       /\ e2.file = Unwrap(e1.result)
       /\ {e1.file, e2.file} \subseteq read_files

\* The headers one scan of file under the search directories dirs resolves.
ResolvedFrom(file, dirs) ==
  IF IsSome(ReadIncludes(file))
  THEN {Unwrap(r) :
          r \in {ResolveOutcome(
                   CandidatePaths(Unwrap(ReadIncludes(file))[i], dirs, file),
                   ExistsResults(
                     CandidatePaths(Unwrap(ReadIncludes(file))[i], dirs, file),
                     {})).result :
                   i \in DOMAIN Unwrap(ReadIncludes(file))} \ {None}}
  ELSE {}

\* The least set of headers closed under "resolved from the translation unit
\* or from a member through which the closure is continued".
RECURSIVE ClosureFrom(_, _, _, _)
ClosureFrom(S, tu, dirs, through) ==
  LET more == ResolvedFrom(tu, dirs)
                \cup UNION {ResolvedFrom(h, dirs) : h \in S \cap through}
  IN IF more \subseteq S THEN S ELSE ClosureFrom(S \cup more, tu, dirs, through)

\* The closure continued through every header outside the system directories.
NotSystem == {f.path : f \in {x \in fs : ~UnderSystemDir(x.path)}}
\* The closure continued through the headers outside the system directories
\* whose extension is empty or one of the eight C/C++ extensions.
ScannedExts == {"", "c", "cpp", "cc", "cxx", "h", "hpp", "hh", "hxx"}
NotSystemAndScanned == {p \in NotSystem : p.ext \in ScannedExts}

TuDirs == Unwrap(MapGet(file_to_includes, manifest[1].file))

\* The returned list is the entry followed by one synthetic entry per
\* member of closure, each with the entry's directory and invocation.
OutputIsEntryPlus(closure) ==
  /\ Len(Unwrap(output)) = 1 + Cardinality(closure)
  /\ Unwrap(output)[1] = manifest[1]
  /\ {Synthetic[i].file : i \in DOMAIN Synthetic} = closure
  /\ \A i \in DOMAIN Synthetic :
       /\ Synthetic[i].directory = manifest[1].directory
       /\ Synthetic[i].command = manifest[1].command
       /\ Synthetic[i].arguments = manifest[1].arguments
       /\ Synthetic[i].output = None

\* C9 as stated: for a manifest of one entry whose file exists, the output
\* is the entry followed by exactly one synthetic entry per header of the
\* closure of its resolvable includes, not continued through system headers,
\* each with the entry's directory and invocation, for any number of workers.
C9_SingleUnitClosureAsStated ==
  (Returned /\ Len(manifest) = 1 /\ PathExists(manifest[1].file))
    => OutputIsEntryPlus(ClosureFrom({}, manifest[1].file, TuDirs, NotSystem))

\* C9 amended: for a manifest of one entry whose file exists and has
\* extension c, cpp, cc or cxx, the output is the entry followed by exactly
\* one synthetic entry per header of the closure of its resolvable includes,
\* not continued through system headers, through files whose extension is
\* non-empty and none of c, cpp, cc, cxx, h, hpp, hh, hxx, or through files
\* that cannot be read, each with the entry's directory and invocation, for
\* any number of workers.
C9_SingleUnitClosure ==
  (/\ Returned
   /\ Len(manifest) = 1
   /\ PathExists(manifest[1].file)
   /\ manifest[1].file.ext \in {"c", "cpp", "cc", "cxx"})
    => OutputIsEntryPlus(ClosureFrom({}, manifest[1].file, TuDirs, NotSystemAndScanned))

\* C9 witness: two workers, one translation unit, the list is returned with
\* an entry for a recorded file of foreign extension whose own include
\* exists beside it and has no entry.
C9_Witness ==
  /\ Returned
  /\ Len(manifest) = 1
  /\ nworkers = 2
  /\ Len(Synthetic) >= 3
  /\ \E i \in DOMAIN Synthetic :
       /\ Synthetic[i].file.ext \notin ScannedExts
       /\ ~UnderSystemDir(Synthetic[i].file)
       /\ ResolvedFrom(Synthetic[i].file, TuDirs) # {}
       /\ ResolvedFrom(Synthetic[i].file, TuDirs) \cap HeaderSet = {}

\* C10: an include token with no candidate resolves to nothing, the scan
\* goes on with the next include of the file, and the headers recorded at
\* the end are those of the pass over the files without such directives
\* (stated for the single worker, whose pass is one computation).
C10_UnresolvedIncludeHasNoEffect ==
  /\ \A e \in resolve_log :
       NoCandidate(e.include, WorkItem(e.file, e.ctx)) => e.result = None
  /\ AllDone =>
       \A f \in read_files : \A i \in DOMAIN Unwrap(ReadIncludes(f)) :
         \E e \in resolve_log : e.file = f /\ e.include = Unwrap(ReadIncludes(f))[i]
  /\ (nworkers = 1 /\ AllDone) => HeaderSet = SequentialHeadersWithoutUnresolved

\* The manifest entries whose file is the path ctx.
EntriesOf(ctx) == {i \in DOMAIN manifest : manifest[i].file = ctx}

\* C11: the returned list is the manifest, unchanged and in its order,
\* followed by the synthetic entries; every synthetic entry has no output,
\* its file is a canonical path recorded in processed_headers, and its
\* directory, command and arguments are those of the manifest entry whose
\* file is the context recorded for that path.
C11_OutputIsManifestThenSynthetic ==
  Returned =>
    /\ Len(Unwrap(output)) >= Len(manifest)
    /\ SubSeq(Unwrap(output), 1, Len(manifest)) = manifest
    /\ \A i \in DOMAIN Synthetic :
         /\ Synthetic[i].output = None
         /\ Synthetic[i].file = CanonPath(Synthetic[i].file)
         /\ PathExists(Synthetic[i].file)
         /\ \E e \in processed_headers :
              /\ e.k = Synthetic[i].file
              /\ EntriesOf(e.v) # {}
              /\ \A j \in EntriesOf(e.v) :
                   /\ Synthetic[i].directory = manifest[j].directory
                   /\ Synthetic[i].command = manifest[j].command
                   /\ Synthetic[i].arguments = manifest[j].arguments

\* C11 witness: a manifest of two entries is returned with a synthetic entry
\* whose context is an entry that has an output, and one whose context is
\* an entry given by a command string.
C11_Witness ==
  /\ Returned
  /\ Len(manifest) = 2
  /\ \E i, k \in DOMAIN Synthetic :
       \E e1, e2 \in processed_headers :
         /\ e1.k = Synthetic[i].file
         /\ e2.k = Synthetic[k].file
         /\ \E j \in EntriesOf(e1.v) : IsSome(manifest[j].output)
         /\ \E j \in EntriesOf(e2.v) : IsSome(manifest[j].command)

\* C12: a call of get_dir_id for the directory of the file a worker scans,
\* made after an earlier call of the same worker for the same file returned,
\* returns the id the earlier call returned; ids start at 0 and the counter
\* never goes back.
C12_InternedIdIsStable ==
  /\ [][\A w \in Workers :
          (pc[w] = "scan" /\ cur[w].i > 1 /\ pc'[w] = "cache_get")
            => cur'[w].dir_id = cur[w].dir_id]_vars
  /\ [](\A e \in DIR_TO_ID : e.v >= 0 /\ e.v < NEXT_DIR_ID)
  /\ [][NEXT_DIR_ID' >= NEXT_DIR_ID]_vars

\* C14: a call of resolve_header_path returns nothing only if no candidate
\* of the call exists, neither beside the including file nor under a search
\* directory of the caller's context.
C14_NothingOnlyIfNoCandidate ==
  \A e \in resolve_log :
    e.result = None => NoCandidate(e.include, WorkItem(e.file, e.ctx))

\* C15: when a call of resolve_header_path has returned, the resolve cache
\* holds the returned result under the call's key (token, id of the
\* including file's directory).
C15_ReturnedResultIsMemoized ==
  \A w \in Workers :
    pc[w] = "claim" => MapGet(resolve_cache, ResolveKey(w)) = Some(cur[w].result)

\* C16: a worker is about to take from the injector only when its local
\* queue is empty, and a worker has left its loop only when the injector and
\* the local queue of every worker are empty.
C16_WorkerStopsOnlyAtQuiescence ==
  /\ \A w \in Workers : pc[w] = "loop" => local_work[w] = <<>>
  /\ \A w \in Workers :
       pc[w] = "done" =>
         /\ work_queue = <<>>
         /\ \A v \in Workers : local_work[v] = <<>>

\* The work units seeded into the injector.
Seeded == {SeedQueue(manifest, Len(manifest))[i] :
             i \in DOMAIN SeedQueue(manifest, Len(manifest))}

\* C17: when every worker has left its loop the injector and all local
\* queues are empty, every seeded work unit and every work unit pushed for
\* a header was popped exactly once, nothing else was popped, and every
\* popped file that passes the extension filter and can be read was read.
C17_NoWorkLost ==
  AllDone =>
    /\ work_queue = <<>>
    /\ \A w \in Workers : local_work[w] = <<>>
    /\ \A item \in Seeded : CopiesIn(item, popped) = 1
    /\ \A h \in BagToSet(pushed) :
         /\ Cardinality({item \in BagToSet(popped) : item.file = h}) = 1
         /\ \A item \in BagToSet(popped) : item.file = h => CopiesIn(item, popped) = 1
    /\ \A item \in BagToSet(popped) : item \in Seeded \/ item.file \in BagToSet(pushed)
    /\ \A item \in BagToSet(popped) :
         (item.file.ext \in ScannedExts /\ IsSome(ReadIncludes(item.file)))
           => item.file \in read_files

\* C17 witness: two workers have left their loops after two seeded units
\* and three or more pushed headers were popped.
C17_Witness ==
  /\ AllDone
  /\ nworkers = 2
  /\ Cardinality(Seeded) = 2
  /\ BagCardinality(pushed) >= 3
  /\ BagCardinality(popped) = 2 + BagCardinality(pushed)

\* C18: a recorded header whose extension is non-empty and none of the
\* eight C/C++ extensions is never read, no include is resolved from it, and
\* it has one synthetic entry; every recorded header was resolved from a
\* file that passes the filter; a recorded header without extension that
\* lies outside the system directories and can be read is read and each of
\* its includes is resolved.
C18_ExtensionFilter ==
  /\ \A h \in HeaderSet :
       h.ext \notin ScannedExts =>
         /\ h \notin read_files
         /\ \A e \in resolve_log : e.file # h
         /\ Returned => \E i \in DOMAIN Synthetic : Synthetic[i].file = h
  /\ \A h \in HeaderSet :
       \E e \in resolve_log : e.result = Some(h) /\ e.file.ext \in ScannedExts
  /\ AllDone =>
       \A h \in HeaderSet :
         (h.ext = "" /\ ~UnderSystemDir(h) /\ IsSome(ReadIncludes(h))) =>
           /\ h \in read_files
           /\ \A i \in DOMAIN Unwrap(ReadIncludes(h)) :
                \E e \in resolve_log :
                  e.file = h /\ e.include = Unwrap(ReadIncludes(h))[i]

\* C18 witness: the list is returned with an entry for a file of foreign
\* extension, found from a translation unit of a manifest of two entries,
\* whose own include exists beside it and is not recorded.
C18_Witness ==
  /\ Returned
  /\ Len(manifest) = 2
  /\ \E h \in HeaderSet :
       /\ h.ext \notin ScannedExts
       /\ \E i \in DOMAIN Synthetic : Synthetic[i].file = h
       /\ \E t \in {FileAt(h).includes[i] : i \in DOMAIN FileAt(h).includes} :
            /\ PathExists(Join(Parent(h), t))
            /\ CanonPath(Join(Parent(h), t)) \notin HeaderSet

\* The files of the manifest entries with extension c, cpp, cc or cxx that
\* exist on disk.
SeededFiles ==
  {manifest[i].file :
     i \in {j \in DOMAIN manifest :
              /\ manifest[j].file.ext \in {"c", "cpp", "cc", "cxx"}
              /\ PathExists(manifest[j].file)}}

\* C19: in every state the context of every queued work unit, of the work
\* unit every worker is scanning and of every processed_headers entry is
\* the file of such an entry, and the returned list has one synthetic entry
\* per recorded header path.
C19_ContextsAreSeededEntries ==
  /\ \A item \in Queued : item.ctx \in SeededFiles
  /\ \A item \in BagToSet(popped) : item.ctx \in SeededFiles
  /\ \A w \in Workers : cur[w].i >= 1 => cur[w].ctx \in SeededFiles
  /\ \A e \in processed_headers : e.v \in SeededFiles
  /\ Returned => Len(Synthetic) = Cardinality(HeaderSet)

\* C19 witness: the list is returned for a manifest with an entry that is a
\* header or is missing on disk, with two or more recorded headers.
C19_Witness ==
  /\ Returned
  /\ \E i \in DOMAIN manifest : manifest[i].file \notin SeededFiles
  /\ Cardinality(HeaderSet) >= 2
  /\ Len(Synthetic) = Cardinality(HeaderSet)

\* The (directory, id) pairs in use: the entries of DIR_TO_ID and the ids
\* the workers hold between fetch_add and the end of the resolution.
HeldIds ==
  {[dir |-> e.k, id |-> e.v] : e \in DIR_TO_ID}
    \cup {[dir |-> SourceDir(w), id |-> cur[w].dir_id] :
            w \in {v \in Workers :
                     pc[v] \in {"dir_insert", "cache_get", "probe", "claim"}}}

\* C20: no id is in use for two different directories, every id in use was
\* handed out by the counter, and every answer read from the resolve cache
\* was stored by a resolution of the same token from the same directory.
C20_IdsAreNeverShared ==
  /\ \A a, b \in HeldIds : a.id = b.id => a.dir = b.dir
  /\ \A a \in HeldIds : a.id >= 0 /\ a.id < NEXT_DIR_ID
  /\ \A e \in resolve_log :
       e.cached =>
         \E e2 \in resolve_log :
           /\ ~e2.cached
           /\ e2.include = e.include
           /\ Parent(e2.file) = Parent(e.file)
           /\ e2.result = e.result

\* C20 witness: two directories have different ids, the same token was
\* resolved from both, and one of the two answers came from the cache.
C20_Witness ==
  \E e1, e2 \in resolve_log :
    /\ e1.include = e2.include
    /\ Parent(e1.file) # Parent(e2.file)
    /\ e1.cached
    /\ IsSome(MapGet(DIR_TO_ID, Parent(e1.file)))
    /\ IsSome(MapGet(DIR_TO_ID, Parent(e2.file)))
    /\ MapGet(DIR_TO_ID, Parent(e1.file)) # MapGet(DIR_TO_ID, Parent(e2.file))

\* The manifest of build path i is present and cannot be read or parsed.
Broken(i) == build_paths[i].kind \in {"unreadable", "unparsable"}

\* The entries of the first n build paths in order, a directory without a
\* manifest file giving none.
RECURSIVE LoadedUpTo(_)
LoadedUpTo(n) ==
  IF n = 0 THEN <<>>
  ELSE LoadedUpTo(n - 1)
         \o (IF build_paths[n].kind = "ok" THEN build_paths[n].commands ELSE <<>>)

\* C13: the build paths are loaded in order, a directory without a manifest
\* file adds nothing and the run goes on; the run fails exactly at the first
\* manifest that cannot be read or parsed, and then the pass never starts
\* and nothing is printed, whatever was loaded before; otherwise the pass
\* runs on the entries of all directories and the list is printed, with no
\* entries at all when no directory has a manifest file.
C13_MissingSkippedBrokenAborts ==
  /\ all_commands = LoadedUpTo(bp - 1)
  /\ \A i \in 1..(bp - 1) : ~Broken(i)
  /\ load = "failed" => bp <= Len(build_paths) /\ Broken(bp)
  /\ (\E i \in DOMAIN build_paths : Broken(i)) =>
       /\ output = None
       /\ load # "loaded"
       /\ \A w \in Workers : pc[w] = "idle"
  /\ load = "loaded" =>
       /\ bp = Len(build_paths) + 1
       /\ manifest = LoadedUpTo(Len(build_paths))
  /\ Returned =>
       /\ load = "loaded"
       /\ SubSeq(Unwrap(output), 1, Len(manifest)) = manifest
       /\ (manifest = <<>> => Unwrap(output) = <<>>)
  /\ (~Returned /\ load # "failed") => ENABLED <<ListNext>>_vars

\* C13 witness: the run has failed at a manifest that cannot be parsed after
\* the entries of an earlier directory were loaded, and nothing is printed.
C13_Witness ==
  /\ load = "failed"
  /\ build_paths[bp].kind = "unparsable"
  /\ all_commands # <<>>
  /\ output = None

====
